---------------------------- MODULE Spec2Model ----------------------------
(***************************************************************************)
(* The tenant-scoped RAG index of MultiToolAPI: RAGService                 *)
(* (app/services/rag_service.py), its HTTP endpoints                       *)
(* (app/api/v1/endpoints/rag.py) and its Celery tasks                      *)
(* (app/tasks/rag_tasks.py), as a state machine.                           *)
(*                                                                         *)
(* The Chroma collection is the variable store: one record per fragment,   *)
(* keyed by the id the vector store gave it.  Every action is one HTTP     *)
(* handler or one step (one service call) of the reindex task; ret holds   *)
(* what the last handler or step returned.  The tables clients and         *)
(* client_data of the database (app/models/client.py) are the variables    *)
(* of these names, written by the endpoints of                             *)
(* app/api/v1/endpoints/clients.py.  crawl is the crawl_website handler    *)
(* of the stand-alone application app_enhanced.py, with its loop state.    *)
(***************************************************************************)
EXTENDS Integers, Sequences, FiniteSets, TLC

VARIABLES
    store,           \* the Chroma collection: a set of stored fragments
    next_uuid1,      \* how many ids the vector store has generated (uuid1)
    next_uuid4,      \* how many doc_ids add_documents has generated (uuid4)
    gemini_api_key,  \* settings.gemini_api_key: None or a key
    qa_chain,        \* RAGService.qa_chain: None or a chain
    task,            \* per worker: the position of reindex_documents_task
    clients,         \* the rows of the table clients
    client_data,     \* the rows of the table client_data
    crawl,           \* crawl_website: the request and the locals of its loop
    enhanced_db,     \* the SQLite database of app_enhanced.py
    scraping_jobs,   \* the rows of table scraping_jobs
    scraped_data,    \* the rows of table scraped_data
    scraping_task,   \* the background tasks of scraping.py and scraping_tasks.py
    query_task,      \* the calls of RAGService.query under way, per thread
    ret              \* the result of the last handler or task step

vars == <<store, next_uuid1, next_uuid4, gemini_api_key, qa_chain, task,
          clients, client_data, crawl, enhanced_db, scraping_jobs,
          scraped_data, scraping_task, query_task, ret>>

(***************************************************************************)
(* Bounds of the model.                                                    *)
(***************************************************************************)
\* ids of each kind that the model lets the program generate
MaxUuid == 4
\* the largest k a search request asks for
MaxK == 2
\* rows the model lets the tables clients and client_data grow to
MaxClients == 3
MaxData == 1
\* fragments the model lets the index hold where the clients endpoints run
MaxFragments == 2
\* URLs of the crawled web, and the largest max_pages and max_depth of a
\* CrawlRequest
MaxUrls == 3
\* scraping jobs the model lets be started
MaxJobs == 1
\* rows the model lets a table of the database of app_enhanced.py grow to
MaxRows == 2
MaxPages == 2
MaxDepth == 2

(***************************************************************************)
(* Program constants.                                                      *)
(***************************************************************************)
ChunkSize == 1000
ChunkOverlap == 200
\* k of the empty-query enumeration in get_client_documents / delete_client_documents
EnumK == 1000
\* k of the retriever that RAGService.query installs
RetrieverK == 5

None == "None"
\* reindex_documents_task(client_id = None): the falsy client id
NoClient == 0
\* RAGService.qa_chain before setup_qa_chain has assigned it
NoChain == [initialized |-> FALSE]

\* Client ids a request may carry; RegisteredClients have a row in clients
\* from the start.
ClientIds == {1, 2, 3}
RegisteredClients == {1, 2}
\* Email addresses of ClientCreate and ClientUpdate bodies.
Emails == {"a@x", "c@x"}
\* db.query(Client).filter(Client.id == client_id).first(): the lookup does
\* not look at is_active.
ClientExists(client_id) == \E c \in clients : c.id = client_id
Workers == {"w1", "w2"}

Min(a, b) == IF a <= b THEN a ELSE b

(***************************************************************************)
(* Text.  A text is a slice <<lo, hi>> (characters lo+1 .. hi) of one      *)
(* separator-free character stream, so that a chunk is a slice of the      *)
(* document it was cut from and overlapping chunks share characters.       *)
(***************************************************************************)
Text(n) == <<0, n>>
TextLen(t) == t[2] - t[1]
EmptyText == Text(0)

\* A splitter that opens a window at every stride of chunk_size -
\* chunk_overlap characters, as long as characters are left.
RECURSIVE SplitEveryStride(_)
SplitEveryStride(t) ==
    IF TextLen(t) = 0 THEN << >>
    ELSE << <<t[1], Min(t[1] + ChunkSize, t[2])>> >>
         \o SplitEveryStride(<<Min(t[1] + ChunkSize - ChunkOverlap, t[2]), t[2]>>)

\* A splitter that returns the empty text as one (empty) chunk.
RECURSIVE SplitKeepsEmpty(_)
SplitKeepsEmpty(t) ==
    IF TextLen(t) <= ChunkSize THEN << t >>
    ELSE << <<t[1], t[1] + ChunkSize>> >>
         \o SplitKeepsEmpty(<<t[1] + ChunkSize - ChunkOverlap, t[2]>>)

\* RecursiveCharacterTextSplitter(chunk_size, chunk_overlap).split_text on a
\* text without separators: hard cuts of chunk_size characters, each chunk
\* starting chunk_size - chunk_overlap characters after the previous one; the
\* empty text yields no chunk.
RECURSIVE split_text(_)
split_text(t) ==
    IF TextLen(t) = 0 THEN << >>
    ELSE IF TextLen(t) <= ChunkSize THEN << t >>
    ELSE << <<t[1], t[1] + ChunkSize>> >>
         \o split_text(<<t[1] + ChunkSize - ChunkOverlap, t[2]>>)

(***************************************************************************)
(* Python dicts are records; d.get(key, default) is DictGet.  Source ids   *)
(* are written as strings, as the default 'unknown' is.                    *)
(***************************************************************************)
DictGet(d, key, default) == IF key \in DOMAIN d THEN d[key] ELSE default

\* str(uuid.uuid4()) in add_documents and the str(uuid.uuid1()) that the
\* vector store generates for a document added without ids: the n-th id of
\* each kind.  The version field makes a uuid1 differ from every uuid4.
Uuid4(n) == <<4, n>>
Uuid1(n) == <<1, n>>

(***************************************************************************)
(* RAGService.add_documents, lines 83-102: the chunks of every document,   *)
(* each with a fresh doc_id and the metadata dict.  base is the number of  *)
(* doc_ids generated before the call.                                      *)
(***************************************************************************)
DocChunks(doc, client_id, base) ==
    LET chunks == split_text(doc.content)
    IN  [i \in 1..Len(chunks) |->
            [page_content |-> chunks[i],
             metadata |-> [client_id |-> client_id,
                           source_id |-> DictGet(doc, "source_id", None),
                           source_type |-> DictGet(doc, "source_type", "unknown"),
                           title |-> DictGet(doc, "title", ""),
                           chunk_index |-> i - 1,
                           doc_id |-> Uuid4(base + i)]]]

RECURSIVE LangchainDocs(_, _, _)
LangchainDocs(documents, client_id, base) ==
    IF documents = << >> THEN << >>
    ELSE LET first == DocChunks(Head(documents), client_id, base)
         IN  first \o LangchainDocs(Tail(documents), client_id, base + Len(first))


(***************************************************************************)
(* The vector store (LangChain's Chroma wrapper over one collection).      *)
(***************************************************************************)
\* Chroma's where-filter: every key of the filter equals the metadata value.
Matches(doc, filter) ==
    \A key \in DOMAIN filter :
        key \in DOMAIN doc.metadata /\ doc.metadata[key] = filter[key]

\* A store that embeds and writes fragment by fragment, and stops at the one
\* that fails.
VectorStoreAddOneByOne(st, docs, base, fault) ==
    LET n == IF fault.kind = "none" THEN Len(docs) ELSE fault.at - 1
    IN  st \cup {[id |-> Uuid1(base + i),
                  page_content |-> docs[i].page_content,
                  metadata |-> docs[i].metadata] : i \in 1..n}

\* vectorstore.add_documents(docs) as add_documents calls it at line 106, with
\* no ids: the store generates a uuid1 per document, embeds all the texts and
\* then writes them in one upsert.  fault.kind says what fails ("none",
\* "embed", "store") and fault.at the fragment at which it does: whichever it
\* is, the one upsert has not happened, and the collection is as it was.
VectorStoreAddDocuments(st, docs, base, fault) ==
    IF fault.kind = "none"
    THEN st \cup {[id |-> Uuid1(base + i),
                   page_content |-> docs[i].page_content,
                   metadata |-> docs[i].metadata] : i \in 1..Len(docs)}
    ELSE st

\* vectorstore.delete(ids): removes the fragments stored under these ids; an
\* id the collection does not hold is skipped.
VectorStoreDelete(st, ids) == {r \in st : r.id \notin ids}

\* vectorstore.similarity_search(query, k, filter) raises when the store is
\* unavailable, and when k is not positive (Chroma rejects n_results <= 0).
SimilaritySearchRaises(k, available) == ~available \/ k <= 0

\* A set of stored fragments as a list, oldest first.
RECURSIVE InsertionOrder(_)
InsertionOrder(S) ==
    IF S = {} THEN << >>
    ELSE LET r == CHOOSE x \in S : \A y \in S : x.id[2] <= y.id[2]
         IN  <<r>> \o InsertionOrder(S \ {r})

\* A search that returns every match, whatever k is.
SimilaritySearchAll(st, query, k, filter) ==
    {InsertionOrder({r \in st : Matches(r, filter)})}

\* ... and otherwise returns the min(k, n) fragments nearest to the query
\* among the n that match the filter.  Which ones are nearest is decided by
\* the embeddings, which are not modelled: every choice of min(k, n) of them
\* is possible, for the empty query too.  The order of the list is by
\* distance; the model lists the chosen fragments oldest first.
SimilaritySearch(st, query, k, filter) ==
    LET S == {r \in st : Matches(r, filter)}
        n == Min(k, Cardinality(S))
    IN  {InsertionOrder(T) : T \in {T \in SUBSET S : Cardinality(T) = n}}

(***************************************************************************)
(* RAGService                                                              *)
(***************************************************************************)
\* add_documents, lines 78-113.  The outcome: the collection, the id
\* counters, whether the exception is re-raised (line 113) and the doc_ids.
\* The ids of a call that failed reach nobody, and are not counted.
add_documents(documents, client_id, fault) ==
    LET langchain_docs == LangchainDocs(documents, client_id, next_uuid4)
        n == Len(langchain_docs)
        failed == n > 0 /\ fault.kind # "none"
        new_store == IF n > 0
                     THEN VectorStoreAddDocuments(store, langchain_docs,
                                                  next_uuid1, fault)
                     ELSE store
    IN  [store |-> new_store,
         next_uuid1 |-> next_uuid1 + Cardinality(new_store \ store),
         next_uuid4 |-> IF failed THEN next_uuid4 ELSE next_uuid4 + n,
         raised |-> failed,
         doc_ids |-> IF failed THEN << >>
                     ELSE [i \in 1..n |-> langchain_docs[i].metadata.doc_id]]

\* A search that passes no filter.
NoFilter(client_id) == << >>

\* The filter search_documents passes to the store, line 132.
SearchFilter(client_id) == [client_id |-> client_id]

\* search_documents, lines 127-148.  results is what similarity_search
\* returned, when it returned; on an exception the method logs and returns [].
search_documents(results, raises) ==
    IF raises
    THEN [result |-> << >>, raised |-> FALSE, caught |-> TRUE]
    ELSE [result |-> [i \in 1..Len(results) |->
                         [content |-> results[i].page_content,
                          metadata |-> results[i].metadata,
                          score |-> 0]],
          raised |-> FALSE, caught |-> FALSE]

\* get_client_documents, lines 240-270: the results grouped by source_id; an
\* entry takes source_type and title from the first result of its source.
\* The entries and their chunks are kept as sets.
get_client_documents(results, raises) ==
    IF raises THEN {}
    ELSE
      LET sid(i) == DictGet(results[i].metadata, "source_id", "unknown")
          idx(s) == {i \in 1..Len(results) : sid(i) = s}
          first(s) == CHOOSE i \in idx(s) : \A j \in idx(s) : i <= j
      IN  {[source_id |-> s,
            source_type |-> DictGet(results[first(s)].metadata, "source_type", "unknown"),
            title |-> DictGet(results[first(s)].metadata, "title", ""),
            chunks |-> {[content |-> results[i].page_content,
                         chunk_index |-> DictGet(results[i].metadata, "chunk_index", 0),
                         metadata |-> results[i].metadata] : i \in idx(s)}]
           : s \in {sid(i) : i \in 1..Len(results)}}

\* A deletion that removes, by its stored id, the first fragment listed.
DeleteFirstListed(results, search_raises, delete_available) ==
    IF search_raises \/ ~delete_available THEN [store |-> store, result |-> FALSE]
    ELSE IF results = << >> THEN [store |-> store, result |-> TRUE]
    ELSE [store |-> VectorStoreDelete(store, {results[1].id}), result |-> TRUE]

\* delete_client_documents, lines 274-294: the doc_id of every result of the
\* empty-query search is handed to vectorstore.delete.
delete_client_documents(results, search_raises, delete_available) ==
    IF search_raises THEN [store |-> store, result |-> FALSE]
    ELSE
      LET doc_ids == {results[i].metadata.doc_id :
                         i \in {j \in 1..Len(results) :
                                   "doc_id" \in DOMAIN results[j].metadata}}
      IN  IF doc_ids = {} THEN [store |-> store, result |-> TRUE]
          ELSE IF ~delete_available THEN [store |-> store, result |-> FALSE]
          ELSE [store |-> VectorStoreDelete(store, doc_ids), result |-> TRUE]

\* A setup that builds the chain, its retriever asking for 5 fragments.
SetupBuildsChain(key) ==
    [qa_chain |-> [initialized |-> TRUE,
                   retriever |-> [k |-> RetrieverK, filter |-> << >>]],
     raised |-> FALSE]

\* setup_qa_chain, lines 152-193: building the retriever's search_kwargs at
\* line 183 reads the name client_id, which is neither a parameter nor a
\* global, so the NameError is raised before line 179 assigns self.qa_chain;
\* the handler logs and re-raises.
setup_qa_chain(key) == [qa_chain |-> qa_chain, raised |-> TRUE]

\* query, lines 206-236.  chain is self.qa_chain on entry; results is what
\* the chain's retriever returned and llm says whether generation worked.
\* Any exception (no chain, retrieval, generation) gives the error answer
\* with no sources.
query(question, client_id, chain, results, search_raises, llm) ==
    LET retriever == [k |-> RetrieverK, filter |-> [client_id |-> client_id]]
        failed == chain = NoChain \/ search_raises \/ llm # "ok"
    IN  [qa_chain |-> IF chain = NoChain THEN chain
                      ELSE [chain EXCEPT !.retriever = retriever],
         answer |-> IF failed THEN "Error processing query" ELSE "generated",
         sources |-> IF failed THEN << >>
                     ELSE [i \in 1..Len(results) |->
                              [content |-> results[i].page_content,
                               metadata |-> results[i].metadata]],
         question |-> question]

(***************************************************************************)
(* Inputs.                                                                 *)
(***************************************************************************)
Queries == {"", "q"}
\* What fails in an add of n fragments: nothing, or the embedder or the
\* store at one of the fragments.
Faults(n) ==
    {[kind |-> "none", at |-> 0]}
        \cup {[kind |-> kind, at |-> i] : kind \in {"embed", "store"}, i \in 1..n}
\* DocumentRequest bodies of POST /documents (source_type defaults to manual):
\* an empty document and one of three chunks.
Contents == {Text(0), Text(2500)}
\* document_data dicts handed to process_document_task
TaskDocuments ==
    {[content |-> Text(500), title |-> "b", source_id |-> "7",
      source_type |-> "uploaded"]}

ClientFragments(st, client_id) == {r \in st : r.metadata.client_id = client_id}

IdleTask ==
    [pc |-> "idle", client_id |-> NoClient, documents |-> {}, todo |-> {},
     inserted |-> 0, count0 |-> 0]

\* No crawl_website request is being served.  fetched lists the URLs that
\* requests.get was called for, in the order of the calls, and edges the
\* links <<page, href>> of the pages that were parsed.
IdleCrawl ==
    [pc |-> "idle",
     request |-> [max_pages |-> 0, max_depth |-> 0, same_domain_only |-> TRUE],
     to_visit |-> << >>, visited |-> {}, saved |-> 0, errors |-> 0,
     fetched |-> << >>, edges |-> {}]

\* No background task of the scraping module is scheduled on the worker.
\* rows, loaded and expired are the ScrapedData objects of the task's
\* session: the ids in the order of the query, the ids whose is_processed
\* was loaded as True, and whether a commit has expired the loaded state.
IdleScraping ==
    [pc |-> "idle", job_id |-> 0, via |-> None, text_content |-> EmptyText,
     record |-> 0, rows |-> << >>, loaded |-> {}, expired |-> FALSE]

\* No call of RAGService.query was made on the thread.  overlapped says
\* that the call ran while a call of the other thread was under way.
IdleQuery ==
    [pc |-> "idle", client_id |-> NoClient, sources |-> << >>,
     overlapped |-> FALSE]

Init ==
    /\ store = {}
    /\ next_uuid1 = 0
    /\ next_uuid4 = 0
    /\ gemini_api_key \in {None, "key"}
    /\ qa_chain = NoChain
    /\ task = [w \in Workers |-> IdleTask]
    /\ clients = {[id |-> 1, email |-> "a@x", is_active |-> TRUE],
                  [id |-> 2, email |-> "b@x", is_active |-> TRUE]}
    /\ client_data = {}
    /\ crawl = IdleCrawl
    /\ enhanced_db = [clients |-> {}, rag_documents |-> << >>,
                      chat_conversations |-> << >>]
    /\ scraping_jobs = {}
    /\ scraped_data = {}
    /\ scraping_task = [w \in Workers |-> IdleScraping]
    /\ query_task = [w \in Workers |-> IdleQuery]
    /\ ret = [op |-> "init"]

(***************************************************************************)
(* The endpoints of app/api/v1/endpoints/rag.py                            *)
(***************************************************************************)
\* POST /documents
AddDocument(client_id, content, fault) ==
    LET documents == << [content |-> content, title |-> "a",
                         source_type |-> "manual", metadata |-> << >>] >>
        out == add_documents(documents, client_id, fault)
    IN  IF ~ClientExists(client_id)
        THEN /\ ret' = [op |-> "add_document", client_id |-> client_id, http |-> 404]
             /\ UNCHANGED <<store, next_uuid1, next_uuid4, gemini_api_key, enhanced_db, scraping_jobs, scraped_data, scraping_task, query_task, crawl, clients, client_data, qa_chain, task>>
        ELSE /\ out.next_uuid4 <= MaxUuid
             /\ store' = out.store
             /\ next_uuid1' = out.next_uuid1
             /\ next_uuid4' = out.next_uuid4
             /\ UNCHANGED task
             /\ ret' = [op |-> "add_document", client_id |-> client_id,
                        content |-> content,
                        http |-> IF out.raised THEN 500 ELSE 200,
                        document_ids |-> out.doc_ids,
                        chunks |-> Len(split_text(content)),
                        fault |-> fault]
             /\ UNCHANGED <<gemini_api_key, enhanced_db, scraping_jobs, scraped_data, scraping_task, query_task, crawl, clients, client_data, qa_chain>>

\* POST /search
SearchDocuments(client_id, q, k, available, results) ==
    LET raises == SimilaritySearchRaises(k, available)
        out == search_documents(results, raises)
    IN  /\ ret' = IF ~ClientExists(client_id)
                  THEN [op |-> "search_documents", client_id |-> client_id, http |-> 404]
                  ELSE [op |-> "search_documents", client_id |-> client_id,
                        query |-> q, k |-> k, available |-> available,
                        http |-> 200, results |-> out.result,
                        caught |-> out.caught]
        /\ UNCHANGED <<store, next_uuid1, next_uuid4, gemini_api_key, enhanced_db, scraping_jobs, scraped_data, scraping_task, query_task, crawl, clients, client_data, qa_chain, task>>

\* GET /documents/{client_id}
GetClientDocuments(client_id, available, results) ==
    LET raises == SimilaritySearchRaises(EnumK, available)
    IN  /\ ret' = IF ~ClientExists(client_id)
                  THEN [op |-> "get_client_documents", client_id |-> client_id, http |-> 404]
                  ELSE [op |-> "get_client_documents", client_id |-> client_id,
                        http |-> 200, available |-> available,
                        documents |-> get_client_documents(results, raises)]
        /\ UNCHANGED <<store, next_uuid1, next_uuid4, gemini_api_key, enhanced_db, scraping_jobs, scraped_data, scraping_task, query_task, crawl, clients, client_data, qa_chain, task>>

\* DELETE /documents/{client_id}.  again says that the request repeats the
\* one before it, which succeeded.
DeleteClientDocuments(client_id, available, delete_available, results) ==
    LET raises == SimilaritySearchRaises(EnumK, available)
        out == delete_client_documents(results, raises, delete_available)
    IN  IF ~ClientExists(client_id)
        THEN /\ ret' = [op |-> "delete_client_documents", client_id |-> client_id, http |-> 404]
             /\ UNCHANGED <<store, next_uuid1, next_uuid4, gemini_api_key, enhanced_db, scraping_jobs, scraped_data, scraping_task, query_task, crawl, clients, client_data, qa_chain, task>>
        ELSE /\ store' = out.store
             /\ UNCHANGED task
             /\ ret' = [op |-> "delete_client_documents", client_id |-> client_id,
                        http |-> IF out.result THEN 200 ELSE 500,
                        success |-> out.result,
                        available |-> available /\ delete_available,
                        again |-> /\ ret.op = "delete_client_documents"
                                  /\ ret.client_id = client_id
                                  /\ ret.http = 200]
             /\ UNCHANGED <<next_uuid1, next_uuid4, gemini_api_key, enhanced_db, scraping_jobs, scraped_data, scraping_task, query_task, crawl, clients, client_data, qa_chain>>

\* POST /setup
SetupRagSystem ==
    LET out == setup_qa_chain(gemini_api_key)
    IN  IF gemini_api_key = None
        THEN /\ ret' = [op |-> "setup_rag_system", http |-> 400]
             /\ UNCHANGED <<store, next_uuid1, next_uuid4, gemini_api_key, enhanced_db, scraping_jobs, scraped_data, scraping_task, query_task, crawl, clients, client_data, qa_chain, task>>
        ELSE /\ qa_chain' = out.qa_chain
             /\ ret' = [op |-> "setup_rag_system",
                        http |-> IF out.raised THEN 500 ELSE 200]
             /\ UNCHANGED <<store, next_uuid1, next_uuid4, gemini_api_key, enhanced_db, scraping_jobs, scraped_data, scraping_task, query_task, crawl, clients, client_data, task>>

\* POST /query.  The request's k is not passed on (line 62).
QueryRag(client_id, q, k, available, llm, results) ==
    LET setup == IF qa_chain = NoChain THEN setup_qa_chain(gemini_api_key)
                 ELSE [qa_chain |-> qa_chain, raised |-> FALSE]
        raises == SimilaritySearchRaises(RetrieverK, available)
        out == query(q, client_id, setup.qa_chain, results, raises, llm)
        head == [op |-> "query_rag", client_id |-> client_id, k |-> k,
                 available |-> available, llm |-> llm]
    IN  IF ~ClientExists(client_id)
        THEN /\ ret' = head @@ [http |-> 404, sources |-> << >>]
             /\ UNCHANGED <<store, next_uuid1, next_uuid4, gemini_api_key, enhanced_db, scraping_jobs, scraped_data, scraping_task, query_task, crawl, clients, client_data, qa_chain, task>>
        ELSE IF gemini_api_key = None
        THEN /\ ret' = head @@ [http |-> 400, sources |-> << >>]
             /\ UNCHANGED <<store, next_uuid1, next_uuid4, gemini_api_key, enhanced_db, scraping_jobs, scraped_data, scraping_task, query_task, crawl, clients, client_data, qa_chain, task>>
        ELSE IF setup.raised
        THEN /\ qa_chain' = setup.qa_chain
             /\ ret' = head @@ [http |-> 500, sources |-> << >>]
             /\ UNCHANGED <<store, next_uuid1, next_uuid4, gemini_api_key, enhanced_db, scraping_jobs, scraped_data, scraping_task, query_task, crawl, clients, client_data, task>>
        ELSE /\ qa_chain' = out.qa_chain
             /\ ret' = head @@ [http |-> 200, answer |-> out.answer,
                                sources |-> out.sources]
             /\ UNCHANGED <<store, next_uuid1, next_uuid4, gemini_api_key, enhanced_db, scraping_jobs, scraped_data, scraping_task, query_task, crawl, clients, client_data, task>>

(***************************************************************************)
(* The Celery tasks of app/tasks/rag_tasks.py                              *)
(***************************************************************************)
\* process_document_task
ProcessDocumentTask(client_id, document_data, fault) ==
    LET out == add_documents(<<document_data>>, client_id, fault)
    IN  IF ~ClientExists(client_id)
        THEN /\ ret' = [op |-> "process_document_task", client_id |-> client_id,
                        status |-> "failed"]
             /\ UNCHANGED <<store, next_uuid1, next_uuid4, gemini_api_key, enhanced_db, scraping_jobs, scraped_data, scraping_task, query_task, crawl, clients, client_data, qa_chain, task>>
        ELSE /\ out.next_uuid4 <= MaxUuid
             /\ store' = out.store
             /\ next_uuid1' = out.next_uuid1
             /\ next_uuid4' = out.next_uuid4
             /\ UNCHANGED task
             /\ ret' = [op |-> "process_document_task", client_id |-> client_id,
                        status |-> IF out.raised THEN "failed" ELSE "completed",
                        document_ids |-> out.doc_ids,
                        chunks |-> Len(split_text(document_data.content)),
                        fault |-> fault]
             /\ UNCHANGED <<gemini_api_key, enhanced_db, scraping_jobs, scraped_data, scraping_task, query_task, crawl, clients, client_data, qa_chain>>

\* The dict that reindex_documents_task builds from an entry of
\* get_client_documents, lines 119-124.
ReindexDocData(doc) ==
    [content |-> DictGet(doc, "content", EmptyText),
     title |-> DictGet(doc, "title", ""),
     source_type |-> DictGet(doc, "source_type", "unknown"),
     metadata |-> DictGet(doc, "metadata", << >>)]

\* What reindex_documents_task returns, with the documents it had read, the
\* number of fragments its add_documents calls inserted and (count0) the
\* number of fragments the client had when the task began.
ReindexResult(w, t, status) ==
    [op |-> "reindex_documents_task", worker |-> w, status |-> status,
     client_id |-> t.client_id, documents |-> t.documents,
     documents_reindexed |-> Cardinality(t.documents),
     inserted |-> t.inserted, count0 |-> t.count0]

\* reindex_documents_task(client_id), lines 105-110 and 132-141: without a
\* client id the task returns at once.
ReindexStart(w, client_id) ==
    /\ task[w].pc = "idle"
    /\ IF client_id = NoClient
       THEN /\ ret' = ReindexResult(w, IdleTask, "completed")
            /\ UNCHANGED task
       ELSE /\ task' = [task EXCEPT ![w] =
                          [IdleTask EXCEPT
                             !.pc = "get", !.client_id = client_id,
                             !.count0 = Cardinality(ClientFragments(store, client_id))]]
            /\ ret' = [op |-> "reindex_start", worker |-> w]
    /\ UNCHANGED <<store, next_uuid1, next_uuid4, gemini_api_key, enhanced_db, scraping_jobs, scraped_data, scraping_task, query_task, crawl, clients, client_data, qa_chain>>

\* line 113
ReindexGet(w, available, results) ==
    /\ task[w].pc = "get"
    /\ LET raises == SimilaritySearchRaises(EnumK, available)
       IN  task' = [task EXCEPT ![w].pc = "delete",
                                ![w].documents = get_client_documents(results, raises)]
    /\ ret' = [op |-> "reindex_get", worker |-> w]
    /\ UNCHANGED <<store, next_uuid1, next_uuid4, gemini_api_key, enhanced_db, scraping_jobs, scraped_data, scraping_task, query_task, crawl, clients, client_data, qa_chain>>

\* line 116: the result of delete_client_documents is not looked at
ReindexDelete(w, available, delete_available, results) ==
    /\ task[w].pc = "delete"
    /\ LET raises == SimilaritySearchRaises(EnumK, available)
           out == delete_client_documents(results, raises, delete_available)
       IN  /\ store' = out.store
           /\ task' = [task EXCEPT ![w].pc = "add",
                                   ![w].todo = task[w].documents]
    /\ ret' = [op |-> "reindex_delete", worker |-> w]
    /\ UNCHANGED <<next_uuid1, next_uuid4, gemini_api_key, enhanced_db, scraping_jobs, scraped_data, scraping_task, query_task, crawl, clients, client_data, qa_chain>>

\* lines 118-125, one iteration (the documents are taken in any order); an
\* exception ends the task as failed (lines 143-145)
ReindexAdd(w, doc, fault) ==
    /\ task[w].pc = "add"
    /\ doc \in task[w].todo
    /\ LET out == add_documents(<<ReindexDocData(doc)>>, task[w].client_id, fault)
           t == [task[w] EXCEPT !.todo = task[w].todo \ {doc},
                                !.inserted = task[w].inserted + Len(out.doc_ids)]
       IN  /\ out.next_uuid4 <= MaxUuid
           /\ store' = out.store
           /\ next_uuid1' = out.next_uuid1
           /\ next_uuid4' = out.next_uuid4
           /\ IF out.raised
              THEN /\ task' = [task EXCEPT ![w] = IdleTask]
                   /\ ret' = ReindexResult(w, t, "failed")
              ELSE /\ task' = [task EXCEPT ![w] = t]
                   /\ ret' = [op |-> "reindex_add", worker |-> w]
    /\ UNCHANGED <<gemini_api_key, enhanced_db, scraping_jobs, scraped_data, scraping_task, query_task, crawl, clients, client_data, qa_chain>>

\* lines 127-131
ReindexReturn(w) ==
    /\ task[w].pc = "add"
    /\ task[w].todo = {}
    /\ task' = [task EXCEPT ![w] = IdleTask]
    /\ ret' = ReindexResult(w, task[w], "completed")
    /\ UNCHANGED <<store, next_uuid1, next_uuid4, gemini_api_key, enhanced_db, scraping_jobs, scraped_data, scraping_task, query_task, crawl, clients, client_data, qa_chain>>

(***************************************************************************)
(* The specification: the endpoints and one reindex worker.                *)
(***************************************************************************)
EnumResults(client_id) ==
    SimilaritySearch(store, "", EnumK, [client_id |-> client_id])

ContentFaults(content) == Faults(Len(split_text(content)))

Reindex(w) ==
    \/ \E client_id \in ClientIds \cup {NoClient} : ReindexStart(w, client_id)
    \/ \E available \in BOOLEAN :
         \E results \in EnumResults(task[w].client_id) :
            ReindexGet(w, available, results)
    \/ \E available, delete_available \in BOOLEAN :
         \E results \in EnumResults(task[w].client_id) :
            ReindexDelete(w, available, delete_available, results)
    \/ \E doc \in task[w].todo :
         \E fault \in ContentFaults(ReindexDocData(doc).content) :
            ReindexAdd(w, doc, fault)
    \/ ReindexReturn(w)

\* Requests and reindex runs one at a time: a request is served while no
\* reindex is under way.
NoReindexRunning == \A w \in Workers : task[w].pc = "idle"

Next ==
    \/ \E client_id \in ClientIds, content \in Contents :
         \E fault \in ContentFaults(content) :
            NoReindexRunning /\ AddDocument(client_id, content, fault)
    \/ \E client_id \in ClientIds, document_data \in TaskDocuments :
         \E fault \in ContentFaults(document_data.content) :
            NoReindexRunning /\ ProcessDocumentTask(client_id, document_data, fault)
    \/ \E client_id \in ClientIds, q \in Queries, k \in 0..MaxK, available \in BOOLEAN :
         \E results \in SimilaritySearch(store, q, k, SearchFilter(client_id)) :
            NoReindexRunning /\ SearchDocuments(client_id, q, k, available, results)
    \/ \E client_id \in ClientIds, available \in BOOLEAN :
         \E results \in EnumResults(client_id) :
            NoReindexRunning /\ GetClientDocuments(client_id, available, results)
    \/ \E client_id \in ClientIds, available, delete_available \in BOOLEAN :
         \E results \in EnumResults(client_id) :
            NoReindexRunning
            /\ DeleteClientDocuments(client_id, available, delete_available, results)
    \/ NoReindexRunning /\ SetupRagSystem
    \/ \E client_id \in ClientIds, q \in Queries, k \in 0..MaxK,
          available \in BOOLEAN, llm \in {"ok", "error"} :
         \E results \in SimilaritySearch(store, q, RetrieverK,
                                         [client_id |-> client_id]) :
            NoReindexRunning /\ QueryRag(client_id, q, k, available, llm, results)
    \/ Reindex("w1")

Spec == Init /\ [][Next]_vars

\* Two Celery workers: reindex_documents_task takes no lock, so a second run
\* may start, and take its steps, while the first is under way.
NextConcurrent ==
    \/ Next
    \/ Reindex("w2")

SpecConcurrent == Init /\ [][NextConcurrent]_vars

(***************************************************************************)
(* The endpoints of app/api/v1/endpoints/clients.py.  They use a           *)
(* RAGService of their own over the same Chroma collection.                *)
(***************************************************************************)
RagUnchanged == UNCHANGED <<next_uuid1, next_uuid4, gemini_api_key, enhanced_db, scraping_jobs, scraped_data, scraping_task, query_task, crawl, qa_chain, task>>

\* POST /clients/.  The HTTPException(400) of line 60 is raised inside the
\* try block, whose only handler is "except Exception" (lines 80-82): it is
\* caught there, and the request is answered with 500.
CreateClient(email) ==
    LET existing_client == {c \in clients : c.email = email}
        db_client == [id |-> Cardinality(clients) + 1, email |-> email,
                      is_active |-> TRUE]
    IN  /\ IF existing_client # {}
           THEN /\ ret' = [op |-> "create_client", email |-> email,
                           existing |-> TRUE, raised |-> 400, http |-> 500]
                /\ UNCHANGED clients
           ELSE /\ Cardinality(clients) < MaxClients
                /\ clients' = clients \cup {db_client}
                /\ ret' = [op |-> "create_client", email |-> email,
                           existing |-> FALSE, raised |-> 0, http |-> 200,
                           client_id |-> db_client.id]
        /\ UNCHANGED <<store, client_data>>
        /\ RagUnchanged

\* PUT /clients/{client_id} with a body that sets email.  The column is
\* unique: the commit of an email that another row has raises, and the
\* handler rolls back and answers 500.
UpdateClient(client_id, email) ==
    /\ IF ~ClientExists(client_id)
       THEN /\ ret' = [op |-> "update_client", client_id |-> client_id, http |-> 404]
            /\ UNCHANGED clients
       ELSE IF \E c \in clients : c.id # client_id /\ c.email = email
       THEN /\ ret' = [op |-> "update_client", client_id |-> client_id, http |-> 500]
            /\ UNCHANGED clients
       ELSE /\ clients' = {IF c.id = client_id THEN [c EXCEPT !.email = email] ELSE c
                              : c \in clients}
            /\ ret' = [op |-> "update_client", client_id |-> client_id, http |-> 200]
    /\ UNCHANGED <<store, client_data>>
    /\ RagUnchanged

\* DELETE /clients/{client_id}: the soft delete is committed (lines 182-183)
\* and then delete_client_documents is called, its result not looked at
\* (line 186).  crash: the process dies between the two; no response then.
DeleteClient(client_id, crash, available, delete_available, results) ==
    LET raises == SimilaritySearchRaises(EnumK, available)
        out == delete_client_documents(results, raises, delete_available)
    IN  /\ IF ~ClientExists(client_id)
           THEN /\ ret' = [op |-> "delete_client", client_id |-> client_id, http |-> 404]
                /\ UNCHANGED <<clients, store>>
           ELSE /\ clients' = {IF c.id = client_id THEN [c EXCEPT !.is_active = FALSE]
                                                   ELSE c : c \in clients}
                /\ store' = IF crash THEN store ELSE out.store
                /\ ret' = [op |-> "delete_client", client_id |-> client_id,
                           http |-> IF crash THEN 0 ELSE 200,
                           crashed |-> crash,
                           documents_deleted |-> ~crash /\ out.result]
        /\ UNCHANGED client_data
        /\ RagUnchanged

\* POST /clients/{client_id}/data with text content: the client_data row is
\* committed (line 246), then the content, if any, goes to add_documents
\* with the row's id as source_id, and the row is marked processed.  When
\* add_documents raises, the rollback of line 272 finds the row committed.
UploadClientData(client_id, content, fault) ==
    LET id == Cardinality(client_data) + 1
        row == [id |-> id, client_id |-> client_id, data_type |-> "document",
                title |-> "u", content |-> content, is_processed |-> FALSE]
        documents == << [content |-> content, title |-> "u",
                         source_id |-> ToString(id),
                         source_type |-> "document"] >>
        out == IF content # EmptyText
               THEN add_documents(documents, client_id, fault)
               ELSE [store |-> store, next_uuid1 |-> next_uuid1,
                     next_uuid4 |-> next_uuid4, raised |-> FALSE, doc_ids |-> << >>]
        processed == content # EmptyText /\ ~out.raised
    IN  IF ~ClientExists(client_id)
        THEN /\ ret' = [op |-> "upload_client_data", client_id |-> client_id, http |-> 404]
             /\ UNCHANGED <<store, clients, client_data>>
             /\ RagUnchanged
        ELSE /\ id <= MaxData
             /\ out.next_uuid4 <= MaxUuid
             /\ client_data' = client_data \cup {[row EXCEPT !.is_processed = processed]}
             /\ store' = out.store
             /\ next_uuid1' = out.next_uuid1
             /\ next_uuid4' = out.next_uuid4
             /\ ret' = [op |-> "upload_client_data", client_id |-> client_id,
                        http |-> IF out.raised THEN 500 ELSE 200,
                        data_id |-> id, processed |-> processed, fault |-> fault]
             /\ UNCHANGED <<clients, gemini_api_key, enhanced_db, scraping_jobs, scraped_data, scraping_task, query_task, crawl, qa_chain, task>>

\* Text contents of an upload: none, and one of a single chunk.
UploadContents == {Text(0), Text(500)}

\* The clients endpoints, with POST /documents of the RAG endpoints.
NextClients ==
    \/ \E email \in Emails : CreateClient(email)
    \/ \E client_id \in ClientIds, email \in Emails : UpdateClient(client_id, email)
    \/ \E client_id \in ClientIds, crash, available, delete_available \in BOOLEAN :
         \E results \in EnumResults(client_id) :
            DeleteClient(client_id, crash, available, delete_available, results)
    \/ \E client_id \in ClientIds, content \in UploadContents :
         \E fault \in ContentFaults(content) :
            next_uuid4 < MaxFragments /\ UploadClientData(client_id, content, fault)
    \/ \E client_id \in ClientIds, content \in UploadContents :
         \E fault \in ContentFaults(content) :
            next_uuid4 < MaxFragments /\ AddDocument(client_id, content, fault)
    \/ \E client_id \in ClientIds, available \in BOOLEAN :
         \E results \in EnumResults(client_id) :
            GetClientDocuments(client_id, available, results)

SpecClients == Init /\ [][NextClients]_vars

(***************************************************************************)
(* crawl_website of app_enhanced.py (POST /scraping/crawl).  The web is a  *)
(* finite set of URLs; the start URL is 1 and the last URL is on another   *)
(* domain.  A page is fetched at most once in a crawl, so the anchors of a *)
(* page are chosen when it is fetched.                                     *)
(***************************************************************************)
Urls == 1..MaxUrls
StartUrl == 1
Netloc(url) == IF url = MaxUrls THEN "other" ELSE "start"

\* soup.find_all('a', href=True) of a page, as a list
RECURSIVE Anchors(_)
Anchors(S) ==
    IF S = {} THEN << >>
    ELSE LET u == CHOOSE x \in S : \A y \in S : x <= y
         IN  <<u>> \o Anchors(S \ {u})

\* A loop that goes on as long as URLs are left to visit.
CrawlWhileToVisit(c) == c.to_visit # << >>

\* The condition of the while loop, line 454.
CrawlContinues(c) == c.to_visit # << >> /\ c.saved < c.request.max_pages

\* A crawl that follows the links of every page.
DepthAlwaysAllows(depth, request) == TRUE

\* line 487: the links of a page are followed when its depth is below the
\* limit
DepthAllows(depth, request) == depth < request.max_depth

\* Lines 486-496: the links of a saved page that are appended to to_visit.
RECURSIVE Enqueue(_, _, _, _)
Enqueue(hrefs, depth, request, visited) ==
    IF hrefs = << >> THEN << >>
    ELSE LET next_href == Head(hrefs)
             rest == Enqueue(Tail(hrefs), depth, request, visited)
         IN  IF request.same_domain_only /\ Netloc(next_href) # Netloc(StartUrl)
             THEN rest
             ELSE IF next_href \notin visited
             THEN << <<next_href, depth + 1>> >> \o rest
             ELSE rest

AppUnchanged ==
    UNCHANGED <<store, next_uuid1, next_uuid4, gemini_api_key, enhanced_db, scraping_jobs, scraped_data, scraping_task, query_task, qa_chain, task,
                clients, client_data>>

CrawlResponse(c, http) ==
    [op |-> "crawl_website", http |-> http,
     max_pages |-> c.request.max_pages, pages_saved |-> c.saved,
     errors |-> c.errors, visited |-> Cardinality(c.visited),
     left |-> Len(c.to_visit),
     max_depth |-> c.request.max_depth,
     same_domain_only |-> c.request.same_domain_only,
     fetched |-> c.fetched, edges |-> c.edges]

\* lines 441-451
CrawlStart(max_pages, max_depth, same_domain_only) ==
    /\ crawl.pc = "idle"
    /\ crawl' = [pc |-> "loop",
                 request |-> [max_pages |-> max_pages, max_depth |-> max_depth,
                              same_domain_only |-> same_domain_only],
                 to_visit |-> << <<StartUrl, 0>> >>, visited |-> {},
                 saved |-> 0, errors |-> 0, fetched |-> << >>, edges |-> {}]
    /\ ret' = [op |-> "crawl_start"]
    /\ AppUnchanged

\* One iteration of the loop, lines 454-499.  outcome: the page is fetched
\* and saved ("ok"), the fetch fails ("fetch_error", lines 460-465), or the
\* INSERT raises ("db_error"): the exception leaves the handler, and the
\* request is answered with 500.  hrefs are the anchors of the page.
CrawlIterate(outcome, hrefs) ==
    /\ crawl.pc = "loop"
    /\ CrawlContinues(crawl)
    /\ LET current_url == Head(crawl.to_visit)[1]
           depth == Head(crawl.to_visit)[2]
           popped == [crawl EXCEPT !.to_visit = Tail(crawl.to_visit)]
           seen == [popped EXCEPT !.visited = crawl.visited \cup {current_url},
                                  !.fetched = Append(crawl.fetched, current_url)]
       IN  IF current_url \in crawl.visited
           THEN /\ crawl' = popped
                /\ ret' = [op |-> "crawl_iterate"]
           ELSE IF outcome = "fetch_error"
           THEN /\ crawl' = [seen EXCEPT !.errors = crawl.errors + 1]
                /\ ret' = [op |-> "crawl_iterate"]
           ELSE IF outcome = "db_error"
           THEN /\ crawl' = IdleCrawl
                /\ ret' = CrawlResponse(seen, 500)
           ELSE /\ crawl' =
                     [seen EXCEPT
                        !.saved = crawl.saved + 1,
                        !.edges = crawl.edges \cup {<<current_url, h>> : h \in hrefs},
                        !.to_visit =
                            IF DepthAllows(depth, crawl.request)
                            THEN seen.to_visit
                                 \o Enqueue(Anchors(hrefs), depth, crawl.request,
                                            seen.visited)
                            ELSE seen.to_visit]
                /\ ret' = [op |-> "crawl_iterate"]
    /\ AppUnchanged

\* lines 501-507
CrawlReturn ==
    /\ crawl.pc = "loop"
    /\ ~CrawlContinues(crawl)
    /\ crawl' = IdleCrawl
    /\ ret' = CrawlResponse(crawl, 200)
    /\ AppUnchanged

NextCrawl ==
    \/ \E max_pages \in 0..MaxPages, max_depth \in (-1)..MaxDepth,
          same_domain_only \in BOOLEAN :
            CrawlStart(max_pages, max_depth, same_domain_only)
    \/ \E outcome \in {"ok", "fetch_error", "db_error"}, hrefs \in SUBSET Urls :
            CrawlIterate(outcome, hrefs)
    \/ CrawlReturn

\* The handler runs on: an iteration that can be taken is taken, and so is
\* the return.
SpecCrawl ==
    /\ Init
    /\ [][NextCrawl]_vars
    /\ WF_vars(\E outcome \in {"ok", "fetch_error", "db_error"}, hrefs \in SUBSET Urls :
                  CrawlIterate(outcome, hrefs))
    /\ WF_vars(CrawlReturn)

(***************************************************************************)
(* The chatbot of app_enhanced.py (POST /chat/analyze), with the endpoints *)
(* that fill the tables it reads.  Of a client the model keeps the id, of  *)
(* a rag_documents row the client id, of a conversation the client id and  *)
(* the kind of the response.                                               *)
(***************************************************************************)
ServiceUnchanged ==
    UNCHANGED <<store, next_uuid1, next_uuid4, qa_chain, task, clients,
                client_data, crawl, scraping_jobs, scraped_data, scraping_task,
                query_task>>

\* What the call of the Gemini API does: it returns text, returns a reply
\* without candidates (gemini_generate_text returns ''), answers with an
\* error status or with one that says the key is blocked (RuntimeError,
\* line 79), or the request times out.
GeminiOutcomes == {"text", "empty", "error", "blocked", "timeout"}
GeminiReturns(gemini) == gemini \in {"text", "empty"}

\* get_client_data, lines 241-278: None (found = FALSE) for an unknown client
get_client_data(client_id) ==
    IF client_id \notin enhanced_db.clients THEN [found |-> FALSE]
    ELSE [found |-> TRUE, client |-> client_id,
          rag_documents |-> Len(SelectSeq(enhanced_db.rag_documents,
                                          LAMBDA c : c = client_id))]

\* generate_fallback_analysis, lines 858-904; guidance is the note that
\* chat_analyze appends for a blocked key (lines 800-804).
generate_fallback_analysis(data, guidance) ==
    [kind |-> "fallback", documents |-> data.rag_documents, guidance |-> guidance]

\* A chatbot that lets the exception of the Gemini call leave the handler.
ChatGenerateUnguarded(key, gemini, data) ==
    IF key # None
    THEN [bot_response |-> [kind |-> "ai", text |-> gemini],
          analysis_type |-> "AI-powered", raised |-> ~GeminiReturns(gemini)]
    ELSE [bot_response |-> generate_fallback_analysis(data, FALSE),
          analysis_type |-> "Rule-based", raised |-> FALSE]

\* chat_analyze, lines 776-809: the response and its analysis_type.
chat_generate(key, gemini, data) ==
    IF key # None
    THEN IF GeminiReturns(gemini)
         THEN [bot_response |-> [kind |-> "ai", text |-> gemini],
               analysis_type |-> "AI-powered", raised |-> FALSE]
         ELSE [bot_response |-> generate_fallback_analysis(data, gemini = "blocked"),
               analysis_type |-> "Rule-based", raised |-> FALSE]
    ELSE [bot_response |-> generate_fallback_analysis(data, FALSE),
          analysis_type |-> "Rule-based", raised |-> FALSE]

\* POST /clients/ of app_enhanced.py, lines 310-340
EnhancedCreateClient ==
    LET client_id == Cardinality(enhanced_db.clients) + 1
    IN  /\ client_id <= MaxRows
        /\ enhanced_db' = [enhanced_db EXCEPT !.clients = @ \cup {client_id}]
        /\ ret' = [op |-> "enhanced_create_client", client_id |-> client_id]
        /\ UNCHANGED gemini_api_key
        /\ ServiceUnchanged

\* POST /rag/documents of app_enhanced.py, lines 539-563: the row is inserted
\* for whatever client_id the request names.
AddRagDocument(client_id) ==
    /\ Len(enhanced_db.rag_documents) < MaxRows
    /\ enhanced_db' = [enhanced_db EXCEPT !.rag_documents = Append(@, client_id)]
    /\ ret' = [op |-> "add_rag_document", client_id |-> client_id]
    /\ UNCHANGED gemini_api_key
    /\ ServiceUnchanged

\* POST /chat/analyze, lines 763-825.  db_ok: the INSERT of the conversation
\* and its commit go through; when they raise, the request is answered 500.
ChatAnalyze(client_id, gemini, db_ok) ==
    LET data == get_client_data(client_id)
        out == chat_generate(gemini_api_key, gemini, data)
        head == [op |-> "chat_analyze", client_id |-> client_id,
                 gemini |-> gemini, db_ok |-> db_ok]
    IN  /\ IF ~data.found
           THEN /\ ret' = head @@ [http |-> 404]
                /\ UNCHANGED enhanced_db
           ELSE IF out.raised \/ ~db_ok
           THEN /\ ret' = head @@ [http |-> 500]
                /\ UNCHANGED enhanced_db
           ELSE /\ Len(enhanced_db.chat_conversations) < MaxRows
                /\ enhanced_db' =
                     [enhanced_db EXCEPT
                        !.chat_conversations =
                            Append(@, [client_id |-> client_id,
                                       bot_response |-> out.bot_response])]
                /\ ret' = head @@ [http |-> 200, response |-> out.bot_response,
                                   analysis_type |-> out.analysis_type]
        /\ UNCHANGED gemini_api_key
        /\ ServiceUnchanged

NextChat ==
    \/ EnhancedCreateClient
    \/ \E client_id \in ClientIds : AddRagDocument(client_id)
    \/ \E client_id \in ClientIds, gemini \in GeminiOutcomes, db_ok \in BOOLEAN :
            ChatAnalyze(client_id, gemini, db_ok)

SpecChat == Init /\ [][NextChat]_vars

(***************************************************************************)
(* Scraping jobs: the endpoints and background tasks of                    *)
(* app/api/v1/endpoints/scraping.py and the Celery tasks of                *)
(* app/tasks/scraping_tasks.py.  A row of scraping_jobs keeps id,          *)
(* client_id and status; a row of scraped_data keeps id, job_id,           *)
(* client_id, content and is_processed.  A commit may fail (commit_ok);    *)
(* the session is then rolled back and the exception goes to the handler.  *)
(***************************************************************************)
ScrapingUnchanged ==
    UNCHANGED <<gemini_api_key, qa_chain, task, clients, client_data, crawl,
                enhanced_db, query_task>>

\* What web_scraper.scrape_website returns for a page that it could fetch:
\* the extracted text, which may be empty, and the markup.
Pages == {[text_content |-> Text(0), raw_html |-> Text(300)],
          [text_content |-> Text(500), raw_html |-> Text(700)]}
ScrapeError == [error |-> TRUE]
ScrapeResults == Pages \cup {ScrapeError}

Job(job_id) == CHOOSE j \in scraping_jobs : j.id = job_id
JobExists(job_id) == \E j \in scraping_jobs : j.id = job_id
SetStatus(jobs, job_id, status) ==
    {IF j.id = job_id THEN [j EXCEPT !.status = status] ELSE j : j \in jobs}
SetProcessed(rows, id) ==
    {IF r.id = id THEN [r EXCEPT !.is_processed = TRUE] ELSE r : r \in rows}

\* The handler of process_scraping_job, lines 260-263, and of
\* scrape_website_task, lines 83-89: job.status = "failed" and a commit on
\* the task's session, with no rollback before it and no try around it.
\* When that commit raises (the database is still unavailable, or the
\* session refuses to go on after the commit that failed), the row stays
\* as the last successful commit left it.
FailedHandler(jobs, job_id, handler_ok) ==
    IF handler_ok THEN SetStatus(jobs, job_id, "failed") ELSE jobs

\* A task that marks the record whatever add_documents did.
MarkAlways(raised) == TRUE

\* Lines 250-253 of scraping.py, 72-75 of scraping_tasks.py and 257-260 of
\* clients.py: the assignment is_processed = True is reached when
\* add_documents did not raise.
MarkProcessed(raised) == ~raised

\* data.is_processed as the loop of the reprocessing reads it (lines 283 and
\* 110): the value the session loaded with the query, until a commit of the
\* session expires it and it is loaded again.
LoadedIsProcessed(t, data) ==
    IF t.expired THEN data.is_processed ELSE data.id \in t.loaded

\* POST /scraping/start, lines 39-82: the job row is committed and
\* process_scraping_job is scheduled, here on worker w.
StartScraping(w, client_id, commit_ok) ==
    LET id == Cardinality(scraping_jobs) + 1
        head == [op |-> "start_scraping", client_id |-> client_id]
    IN  /\ scraping_task[w].pc = "idle"
        /\ IF ~ClientExists(client_id)
           THEN /\ ret' = head @@ [http |-> 404]
                /\ UNCHANGED <<scraping_jobs, scraping_task>>
           ELSE IF ~commit_ok
           THEN /\ ret' = head @@ [http |-> 500]
                /\ UNCHANGED <<scraping_jobs, scraping_task>>
           ELSE /\ id <= MaxJobs
                /\ scraping_jobs' = scraping_jobs \cup
                      {[id |-> id, client_id |-> client_id, status |-> "pending"]}
                /\ scraping_task' =
                      [scraping_task EXCEPT
                         ![w] = [IdleScraping EXCEPT !.pc = "start", !.job_id = id,
                                                     !.via = "process"]]
                /\ ret' = head @@ [http |-> 200, job_id |-> id]
        /\ UNCHANGED <<store, next_uuid1, next_uuid4, scraped_data>>
        /\ ScrapingUnchanged

\* What a run of process_scraping_job leaves behind when it ends.
ProcessEnded(w, jobs) ==
    /\ scraping_jobs' = jobs
    /\ scraping_task' = [scraping_task EXCEPT ![w] = IdleScraping]
    /\ ret' = [op |-> "process_scraping_job", job_id |-> scraping_task[w].job_id,
               status |-> (CHOOSE j \in jobs : j.id = scraping_task[w].job_id).status]

\* process_scraping_job, lines 211-217: the job becomes running.
ProcessStart(w, commit_ok, handler_ok) ==
    LET t == scraping_task[w]
    IN  /\ t.pc = "start"
        /\ IF commit_ok
           THEN /\ scraping_jobs' = SetStatus(scraping_jobs, t.job_id, "running")
                /\ scraping_task' = [scraping_task EXCEPT ![w].pc = "scrape"]
                /\ UNCHANGED ret
           ELSE ProcessEnded(w, FailedHandler(scraping_jobs, t.job_id, handler_ok))
        /\ UNCHANGED <<store, next_uuid1, next_uuid4, scraped_data>>
        /\ ScrapingUnchanged

\* process_scraping_job, lines 219-240: the page is scraped and the record
\* saved.
ProcessScrape(w, scraped, commit_ok, handler_ok) ==
    LET t == scraping_task[w]
        id == Cardinality(scraped_data) + 1
        scraped_record == [id |-> id, job_id |-> t.job_id,
                           client_id |-> Job(t.job_id).client_id,
                           content |-> scraped.raw_html, is_processed |-> FALSE]
    IN  /\ t.pc = "scrape"
        /\ IF ~commit_ok
           THEN /\ ProcessEnded(w, FailedHandler(scraping_jobs, t.job_id, handler_ok))
                /\ UNCHANGED scraped_data
           ELSE IF scraped = ScrapeError
           THEN /\ ProcessEnded(w, SetStatus(scraping_jobs, t.job_id, "failed"))
                /\ UNCHANGED scraped_data
           ELSE /\ scraped_data' = scraped_data \cup {scraped_record}
                /\ scraping_task' =
                      [scraping_task EXCEPT
                         ![w] = [t EXCEPT !.pc = "index", !.record = id,
                                          !.text_content = scraped.text_content]]
                /\ UNCHANGED ret
                /\ UNCHANGED scraping_jobs
        /\ UNCHANGED <<store, next_uuid1, next_uuid4>>
        /\ ScrapingUnchanged

\* process_scraping_job, lines 242-258: the text goes to add_documents, the
\* record is marked and the job completed in one commit.
ProcessIndex(w, fault, commit_ok, handler_ok) ==
    LET t == scraping_task[w]
        job == Job(t.job_id)
        documents == << [content |-> t.text_content, title |-> "s",
                         source_id |-> ToString(t.record),
                         source_type |-> "scraped"] >>
        out == add_documents(documents, job.client_id, fault)
        marked == MarkProcessed(out.raised) /\ commit_ok
    IN  /\ t.pc = "index"
        /\ out.next_uuid4 <= MaxFragments
        /\ store' = out.store
        /\ next_uuid1' = out.next_uuid1
        /\ next_uuid4' = out.next_uuid4
        /\ scraped_data' = IF marked THEN SetProcessed(scraped_data, t.record)
                           ELSE scraped_data
        /\ scraping_jobs' =
              IF marked THEN SetStatus(scraping_jobs, t.job_id, "completed")
              ELSE FailedHandler(scraping_jobs, t.job_id, handler_ok)
        /\ scraping_task' = [scraping_task EXCEPT ![w] = IdleScraping]
        /\ ret' = [op |-> "process_scraping_job", job_id |-> t.job_id,
                   status |-> (CHOOSE j \in scraping_jobs' : j.id = t.job_id).status,
                   record |-> t.record, client_id |-> job.client_id,
                   add_raised |-> out.raised]
        /\ ScrapingUnchanged

\* scrape_website_task, lines 21-91, for a job it finds.  The task is not a
\* coroutine and does not await scrape_website (line 40), so the membership
\* test of line 42 raises TypeError on the coroutine object, and every run
\* goes from running to the handler.
ScrapeWebsiteTask(job_id, commit_ok, handler_ok) ==
    /\ JobExists(job_id)
    /\ scraping_jobs' =
          FailedHandler(IF commit_ok
                        THEN SetStatus(scraping_jobs, job_id, "running")
                        ELSE scraping_jobs,
                        job_id, handler_ok)
    /\ ret' = [op |-> "scrape_website_task", job_id |-> job_id,
               status |-> (CHOOSE j \in scraping_jobs' : j.id = job_id).status]
    /\ UNCHANGED <<store, next_uuid1, next_uuid4, scraped_data, scraping_task>>
    /\ ScrapingUnchanged

\* POST /scraping/reprocess/{job_id}, lines 178-201: reprocess_job_data is
\* scheduled for a completed job.
ReprocessScrapedData(w, job_id) ==
    LET head == [op |-> "reprocess_scraped_data", job_id |-> job_id]
    IN  /\ scraping_task[w].pc = "idle"
        /\ IF ~JobExists(job_id)
           THEN /\ ret' = head @@ [http |-> 404]
                /\ UNCHANGED scraping_task
           ELSE IF Job(job_id).status # "completed"
           THEN /\ ret' = head @@ [http |-> 400]
                /\ UNCHANGED scraping_task
           ELSE /\ ret' = head @@ [http |-> 200]
                /\ scraping_task' =
                      [scraping_task EXCEPT
                         ![w] = [IdleScraping EXCEPT !.pc = "reprocess",
                                                     !.job_id = job_id,
                                                     !.via = "endpoint"]]
        /\ UNCHANGED <<store, next_uuid1, next_uuid4, scraping_jobs, scraped_data>>
        /\ ScrapingUnchanged

\* reprocess_scraped_data_task is sent to a Celery worker: the task takes
\* any job id and looks at no status.
ReprocessScrapedDataTask(w, job_id) ==
    /\ scraping_task[w].pc = "idle"
    /\ scraping_task' =
          [scraping_task EXCEPT
             ![w] = [IdleScraping EXCEPT !.pc = "reprocess", !.job_id = job_id,
                                         !.via = "celery"]]
    /\ ret' = [op |-> "reprocess_scraped_data_task", job_id |-> job_id]
    /\ UNCHANGED <<store, next_uuid1, next_uuid4, scraping_jobs, scraped_data>>
    /\ ScrapingUnchanged

\* The records of a job in the order of their ids
RECURSIVE RecordIds(_)
RecordIds(S) ==
    IF S = {} THEN << >>
    ELSE LET i == CHOOSE x \in S : \A y \in S : x <= y
         IN  <<i>> \o RecordIds(S \ {i})

\* reprocess_job_data, lines 274-279, and reprocess_scraped_data_task, lines
\* 101-106: the job is looked up and its records are loaded.
ReprocessQuery(w) ==
    LET t == scraping_task[w]
        data == {r \in scraped_data : r.job_id = t.job_id}
    IN  /\ t.pc = "reprocess"
        /\ IF ~JobExists(t.job_id)
           THEN /\ scraping_task' = [scraping_task EXCEPT ![w] = IdleScraping]
                /\ ret' = [op |-> "reprocess", job_id |-> t.job_id, via |-> t.via,
                           status |-> IF t.via = "celery" THEN "failed" ELSE None]
           ELSE /\ scraping_task' =
                      [scraping_task EXCEPT
                         ![w] = [t EXCEPT !.pc = "loop",
                                          !.rows = RecordIds({r.id : r \in data}),
                                          !.loaded = {r.id : r \in {x \in data : x.is_processed}}]]
                /\ UNCHANGED ret
        /\ UNCHANGED <<store, next_uuid1, next_uuid4, scraping_jobs, scraped_data>>
        /\ ScrapingUnchanged

\* One turn of the loop of lines 282-296 (109-128 of the Celery task), or
\* the return after it.  An exception of add_documents or of the commit ends
\* the task in its handler, which changes no row.
ReprocessIterate(w, fault, commit_ok) ==
    LET t == scraping_task[w]
        data == CHOOSE r \in scraped_data : r.id = Head(t.rows)
        documents == << [content |-> data.content, title |-> "s",
                         source_id |-> ToString(data.id),
                         source_type |-> "scraped"] >>
        out == add_documents(documents, Job(t.job_id).client_id, fault)
        done(status) ==
            /\ scraping_task' = [scraping_task EXCEPT ![w] = IdleScraping]
            /\ ret' = [op |-> "reprocess", job_id |-> t.job_id, via |-> t.via,
                       status |-> IF t.via = "celery" THEN status ELSE None]
    IN  /\ t.pc = "loop"
        /\ IF t.rows = << >>
           THEN /\ done("completed")
                /\ UNCHANGED <<store, next_uuid1, next_uuid4, scraped_data>>
           ELSE IF LoadedIsProcessed(t, data)
           THEN /\ scraping_task' = [scraping_task EXCEPT ![w].rows = Tail(t.rows)]
                /\ UNCHANGED ret
                /\ UNCHANGED <<store, next_uuid1, next_uuid4, scraped_data>>
           ELSE /\ out.next_uuid4 <= MaxFragments
                /\ store' = out.store
                /\ next_uuid1' = out.next_uuid1
                /\ next_uuid4' = out.next_uuid4
                /\ IF MarkProcessed(out.raised) /\ commit_ok
                   THEN /\ scraped_data' = SetProcessed(scraped_data, data.id)
                        /\ scraping_task' =
                              [scraping_task EXCEPT ![w].rows = Tail(t.rows),
                                                    ![w].expired = TRUE]
                        /\ ret' = [op |-> "reprocess_add", job_id |-> t.job_id,
                                   record |-> data.id,
                                   client_id |-> Job(t.job_id).client_id,
                                   add_raised |-> out.raised]
                   ELSE /\ done("failed")
                        /\ UNCHANGED scraped_data
        /\ UNCHANGED scraping_jobs
        /\ ScrapingUnchanged

NextScraping ==
    \/ \E w \in Workers, client_id \in ClientIds, commit_ok \in BOOLEAN :
         StartScraping(w, client_id, commit_ok)
    \/ \E w \in Workers, commit_ok, handler_ok \in BOOLEAN :
         ProcessStart(w, commit_ok, handler_ok)
    \/ \E w \in Workers, scraped \in ScrapeResults, commit_ok, handler_ok \in BOOLEAN :
         ProcessScrape(w, scraped, commit_ok, handler_ok)
    \/ \E w \in Workers, commit_ok, handler_ok \in BOOLEAN :
         \E fault \in ContentFaults(scraping_task[w].text_content) :
            ProcessIndex(w, fault, commit_ok, handler_ok)
    \/ \E job_id \in 1..MaxJobs, commit_ok, handler_ok \in BOOLEAN :
         ScrapeWebsiteTask(job_id, commit_ok, handler_ok)
    \/ \E w \in Workers, job_id \in 1..MaxJobs : ReprocessScrapedData(w, job_id)
    \/ \E w \in Workers, job_id \in 1..MaxJobs : ReprocessScrapedDataTask(w, job_id)
    \/ \E w \in Workers : ReprocessQuery(w)
    \/ \E w \in Workers, commit_ok \in BOOLEAN :
         \E fault \in Faults(1) : ReprocessIterate(w, fault, commit_ok)
    \/ \E client_id \in ClientIds, content \in UploadContents :
         \E fault \in ContentFaults(content) :
            next_uuid4 < MaxFragments /\ UploadClientData(client_id, content, fault)

SpecScraping == Init /\ [][NextScraping]_vars

(***************************************************************************)
(* RAGService.query called from two threads on one service instance.  A    *)
(* call is made (QueryCall) and then runs in two steps: lines 206-213,     *)
(* which check the chain and replace its retriever, and lines 216-236,     *)
(* which invoke the chain with the retriever it has at that moment.        *)
(***************************************************************************)
QueryUnchanged ==
    UNCHANGED <<next_uuid1, next_uuid4, gemini_api_key, task, clients,
                client_data, crawl, enhanced_db, scraping_jobs, scraped_data,
                scraping_task>>

InFlight(w) == query_task[w].pc \in {"called", "invoke"}

QueryCall(w, client_id) ==
    LET overlap == \E v \in Workers \ {w} : InFlight(v)
    IN  /\ ~InFlight(w)
        /\ query_task' =
              [v \in Workers |->
                 IF v = w
                 THEN [pc |-> "called", client_id |-> client_id,
                       sources |-> << >>, overlapped |-> overlap]
                 ELSE IF InFlight(v)
                 THEN [query_task[v] EXCEPT !.overlapped = TRUE]
                 ELSE query_task[v]]
        /\ UNCHANGED <<store, qa_chain, ret>>
        /\ QueryUnchanged

\* The filter of the retriever that the chain holds
RetrieverFilter ==
    IF qa_chain = NoChain THEN << >> ELSE qa_chain.retriever.filter

QueryRun(w, available, llm, results) ==
    LET t == query_task[w]
        raises == SimilaritySearchRaises(RetrieverK, available)
        out == query("q", t.client_id, qa_chain, results, raises, llm)
        return(sources) ==
            /\ query_task' = [query_task EXCEPT ![w].pc = "returned",
                                                ![w].sources = sources]
            /\ ret' = [op |-> "query", client_id |-> t.client_id,
                       sources |-> sources, overlapped |-> t.overlapped]
    IN  /\ InFlight(w)
        /\ IF t.pc = "called"
           THEN IF qa_chain = NoChain
                THEN /\ return(out.sources)
                     /\ UNCHANGED qa_chain
                ELSE /\ qa_chain' = out.qa_chain
                     /\ query_task' = [query_task EXCEPT ![w].pc = "invoke"]
                     /\ UNCHANGED ret
           ELSE /\ return(out.sources)
                /\ UNCHANGED qa_chain
        /\ UNCHANGED store
        /\ QueryUnchanged

\* POST /documents and POST /setup, with the query threads
NextQuery ==
    \/ \E client_id \in ClientIds, content \in UploadContents :
         \E fault \in ContentFaults(content) :
            next_uuid4 < MaxFragments /\ AddDocument(client_id, content, fault)
    \/ SetupRagSystem
    \/ \E w \in Workers, client_id \in ClientIds : QueryCall(w, client_id)
    \/ \E w \in Workers, available \in BOOLEAN, llm \in {"ok", "error"} :
         \E results \in SimilaritySearch(store, "q", RetrieverK, RetrieverFilter) :
            QueryRun(w, available, llm, results)

SpecQuery == Init /\ [][NextQuery]_vars

(***************************************************************************)
(* Properties                                                              *)
(***************************************************************************)
Registered(r) == r.client_id \in RegisteredClients

\* C1: for all clients A # B, whatever was added, deleted and reindexed
\* before, search_documents(query, A, k) returns no fragment whose metadata
\* client_id is B.
TenantIsolation ==
    (ret.op = "search_documents" /\ ret.http = 200)
        => \A i \in 1..Len(ret.results) :
              ret.results[i].metadata.client_id = ret.client_id

\* A search that returned fragments while another client had fragments too.
TenantIsolationWitness ==
    /\ ret.op = "search_documents"
    /\ ret.http = 200
    /\ Len(ret.results) >= 1
    /\ \E r \in store : r.metadata.client_id # ret.client_id

\* C2: after delete_client_documents(c) has returned True, the index holds no
\* fragment of c (so that no search for c can return one ingested before).
DeleteEmptiesClient ==
    (ret.op = "delete_client_documents" /\ ret.http = 200)
        => ClientFragments(store, ret.client_id) = {}

\* C3: every id that add_documents returns is the id under which exactly one
\* fragment is stored, the one whose metadata doc_id it is, so that deleting
\* by that id removes that fragment and no other.
DocIdIsStoredId ==
    (/\ ret.op \in {"add_document", "process_document_task"}
     /\ "document_ids" \in DOMAIN ret)
        => \A i \in 1..Len(ret.document_ids) :
              LET d == ret.document_ids[i]
                  held == {r \in store : r.id = d}
              IN  /\ Cardinality(held) = 1
                  /\ held = {r \in store : r.metadata.doc_id = d}
                  /\ VectorStoreDelete(store, {d}) = store \ held

\* C4: an add_documents call that fails leaves the index as it was before the
\* call: none of the call's fragments is in it, and the client's fragment
\* count is what it was.
AddFailed(r) ==
    \/ r.op = "add_document" /\ r.http = 500
    \/ r.op \in {"process_document_task", "reindex_documents_task"}
       /\ r.status = "failed"

ReindexCompleted ==
    /\ ret.op = "reindex_documents_task"
    /\ ret.status = "completed"
    /\ ret.client_id # NoClient

\* The doc_ids and the number of the fragments that the reindex had listed.
OldDocIds(documents) ==
    UNION {{ch.metadata.doc_id : ch \in d.chunks} : d \in documents}

\* C5: once a reindex has completed, none of the fragments it had listed is
\* in the index, and the client's fragment count has changed by the number of
\* fragments inserted minus the number listed.
ReindexRetiresOldFragments ==
    ReindexCompleted
        => /\ \A r \in store : r.metadata.doc_id \notin OldDocIds(ret.documents)
           /\ Cardinality(ClientFragments(store, ret.client_id))
                 = ret.count0 - Cardinality(OldDocIds(ret.documents)) + ret.inserted

\* C6: once a reindex has completed, every source it had listed is in the
\* index again, re-inserted: for each of its chunks there is a fragment that
\* the reindex inserted, with the same source_id, title, source_type and text.
ReindexReinsertsSources ==
    ReindexCompleted
        => \A d \in ret.documents : \A ch \in d.chunks :
              \E r \in ClientFragments(store, ret.client_id) :
                  /\ r.metadata.doc_id \notin OldDocIds(ret.documents)
                  /\ r.metadata.source_id = d.source_id
                  /\ r.metadata.title = d.title
                  /\ r.metadata.source_type = d.source_type
                  /\ r.page_content = ch.content

\* C7: when the similarity search raises because the store is unavailable
\* (the request being one with k >= 1), the search fails with an error; it
\* does not answer with a result list.
SearchSurfacesStoreFailure ==
    (/\ ret.op = "search_documents"
     /\ Registered(ret)
     /\ ret.k >= 1
     /\ ~ret.available)
        => ret.http >= 500

\* C8: when generation fails for a query of a registered client that has
\* fragments (the key is configured and the store is available), the request
\* does not fail and the response carries the retrieved fragments as its
\* sources.
QueryDegradesWithSources ==
    (/\ ret.op = "query_rag"
     /\ Registered(ret)
     /\ ClientFragments(store, ret.client_id) # {}
     /\ gemini_api_key # None
     /\ ret.available
     /\ ret.llm = "error")
        => /\ ret.http = 200
           /\ Len(ret.sources)
                = Min(RetrieverK, Cardinality(ClientFragments(store, ret.client_id)))

\* C9: a search with the empty query text returns no fragment, for every
\* client and every k (it is to fail with EmptyQuery before any similarity
\* search is run).
EmptyQueryReturnsNothing ==
    (ret.op = "search_documents" /\ Registered(ret) /\ ret.query = "")
        => ret.results = << >>

\* C10, as amended: search_documents returns at most k results for every
\* k >= 0; for k = 0 it returns the empty list, and does so from its exception
\* handler, the store having rejected k = 0.
SearchAtMostK ==
    (ret.op = "search_documents" /\ ret.http = 200)
        => /\ Len(ret.results) <= ret.k
           /\ ret.k = 0 => (ret.results = << >> /\ ret.caught)

\* A search that k cut short: the client had more fragments than it asked for.
SearchAtMostKWitness ==
    /\ ret.op = "search_documents"
    /\ ret.http = 200
    /\ ret.k >= 1
    /\ Len(ret.results) = ret.k
    /\ Cardinality(ClientFragments(store, ret.client_id)) > ret.k

\* C10, as claimed: at most k results, and for k = 0 the empty list as a
\* normal result of an available store, not as the outcome of an error.
SearchZeroIsNormal ==
    (ret.op = "search_documents" /\ ret.http = 200)
        => /\ Len(ret.results) <= ret.k
           /\ (ret.k = 0 /\ ret.available) => (ret.results = << >> /\ ~ret.caught)

\* The fragments that the last add stored, in the order of their ids.
AddedFragments ==
    InsertionOrder({r \in store :
                      \E i \in 1..Len(ret.document_ids) :
                          r.metadata.doc_id = ret.document_ids[i]})

AddedDocumentOf(n) ==
    /\ ret.op = "add_document"
    /\ ret.http = 200
    /\ ret.content = Text(n)

\* Every fragment has at most ChunkSize characters, and each fragment but the
\* last ends ChunkOverlap characters after the next one begins: the two share
\* these characters.
WellChunked(frags) ==
    /\ \A i \in 1..Len(frags) : TextLen(frags[i].page_content) <= ChunkSize
    /\ \A i \in 1..(Len(frags) - 1) :
          /\ frags[i].page_content[1] < frags[i + 1].page_content[1]
          /\ frags[i].page_content[2] - frags[i + 1].page_content[1] = ChunkOverlap
          /\ frags[i].page_content[2] < frags[i + 1].page_content[2]

\* C11, as amended: ingesting a 2,500-character document that has no
\* separator characters, with chunk size 1000 and overlap 200, produces
\* exactly 3 fragments, each of at most 1000 characters, consecutive fragments
\* sharing 200 characters.
Chunks2500AreThree ==
    AddedDocumentOf(2500)
        => /\ Len(AddedFragments) = 3
           /\ Len(ret.document_ids) = 3
           /\ WellChunked(AddedFragments)

\* A 2,500-character document has been ingested.
Chunks2500Witness ==
    /\ AddedDocumentOf(2500)
    /\ AddedFragments # << >>
    /\ AddedFragments[Len(AddedFragments)].page_content[2] = 2500

\* C11, as claimed: the 2,500-character document produces exactly 4
\* fragments, each of at most 1000 characters, consecutive ones sharing 200.
Chunks2500AreFour ==
    AddedDocumentOf(2500)
        => /\ Len(AddedFragments) = 4
           /\ WellChunked(AddedFragments)

\* C12: ingesting a document whose content is empty creates no fragment,
\* returns an empty id list without raising (whatever the embedder and the
\* store would do) and leaves the index as it was.
EmptyDocumentIsNothingToIndex ==
    [][(/\ ret'.op = "add_document"
        /\ Registered(ret')
        /\ ret'.content = EmptyText)
          => /\ ret'.http = 200
             /\ ret'.document_ids = << >>
             /\ store' = store]_vars

\* An empty document was ingested for a client that has fragments.
EmptyDocumentWitness ==
    /\ AddedDocumentOf(0)
    /\ ClientFragments(store, ret.client_id) # {}

\* C13: a delete_client_documents(c) that follows a successful
\* delete_client_documents(c), the store being available, leaves the index
\* as the first call left it and succeeds as the first did; the ids it hands
\* to the store, none of which the index holds, are skipped without an error.
DeleteIsIdempotent ==
    [][(/\ ret'.op = "delete_client_documents"
        /\ Registered(ret')
        /\ ret'.again
        /\ ret'.available)
          => /\ store' = store
             /\ ret'.http = 200
             /\ ret'.success]_vars

\* The second of two deletions for a client whose fragments carry doc_ids.
DeleteTwiceWitness ==
    /\ ret.op = "delete_client_documents"
    /\ Registered(ret)
    /\ ret.again
    /\ ret.available
    /\ ret.http = 200
    /\ ClientFragments(store, ret.client_id) # {}

\* C14: two reindex runs for the same client do not interleave: while a run
\* that has listed the client's sources and called the deletion is re-adding
\* them, no other run for that client is under way.
ReindexRunsExclusive ==
    \A w1, w2 \in Workers :
        (/\ w1 # w2
         /\ task[w1].pc = "add"
         /\ task[w1].documents # {}
         /\ task[w2].pc # "idle")
            => task[w1].client_id # task[w2].client_id

\* The client_data rows that a fragment's source_id and client_id identify.
SourceRecords(r) ==
    {d \in client_data : /\ ToString(d.id) = r.metadata.source_id
                         /\ d.client_id = r.metadata.client_id}

\* C15: in every reachable state, each fragment of the index belongs to
\* exactly one source record: its source_id is the id of one client_data row
\* of the fragment's client.
FragmentHasOneSource ==
    \A r \in store : Cardinality(SourceRecords(r)) = 1

\* C16: delete_client never leaves a client marked deleted whose fragments
\* are still in the index: when fragments of the client remain after the
\* operation (it failed, the process died, or the deletion removed nothing),
\* the client is still active.
OwnerRemovedAfterIndexDeletion ==
    (/\ ret.op = "delete_client"
     /\ ret.http # 404
     /\ ClientFragments(store, ret.client_id) # {})
        => \E c \in clients : c.id = ret.client_id /\ c.is_active

\* C18: create_client with an email that a client already has is answered
\* with HTTP status 400 (and creates no client: no two rows of clients have
\* the same email).
DuplicateEmailRejected ==
    /\ (ret.op = "create_client" /\ ret.existing) => ret.http = 400
    /\ \A c1, c2 \in clients : c1.email = c2.email => c1 = c2

SetupInitializesChain ==
    (/\ gemini_api_key # None
     /\ \/ ret.op = "setup_rag_system"
        \/ ret.op = "query_rag" /\ Registered(ret))
        => /\ ret.http = 200
           /\ qa_chain # NoChain

CrawlSavedAtMost ==
    /\ crawl.pc = "loop" => crawl.saved <= crawl.request.max_pages
    /\ ret.op = "crawl_website" => ret.pages_saved <= ret.max_pages

\* C20: crawl_website saves at most max_pages pages, for every
\* max_pages >= 0 and whatever the pages link to, and its loop terminates:
\* every crawl that has started comes to its end.
CrawlBoundedAndTerminates ==
    /\ []CrawlSavedAtMost
    /\ (crawl.pc = "loop") ~> (crawl.pc = "idle")

\* A crawl that returned having saved max_pages pages, with URLs left to
\* visit.
CrawlWitness ==
    /\ ret.op = "crawl_website"
    /\ ret.http = 200
    /\ ret.max_pages >= 1
    /\ ret.pages_saved = ret.max_pages
    /\ ret.left >= 1

\* The URLs that at most d links lead to from the start URL.
RECURSIVE WithinLinks(_, _)
WithinLinks(edges, d) ==
    IF d < 0 THEN {}
    ELSE IF d = 0 THEN {StartUrl}
    ELSE LET R == WithinLinks(edges, d - 1)
         IN  R \cup {e[2] : e \in {e \in edges : e[1] \in R}}

\* The fetches of c (the loop's state or a response) stay within the limit:
\* each fetched URL is at most max_depth links from the start URL, and none
\* was fetched twice.
FetchesWithinDepth(fetched, edges, max_depth) ==
    /\ \A i \in 1..Len(fetched) : fetched[i] \in WithinLinks(edges, max_depth)
    /\ \A i, j \in 1..Len(fetched) : fetched[i] = fetched[j] => i = j

\* C21, as amended: for every max_depth >= 0, every page crawl_website
\* fetches is reachable from start_url by at most max_depth links, and no
\* URL is fetched more than once in a crawl.
CrawlWithinDepth ==
    /\ (crawl.pc = "loop" /\ crawl.request.max_depth >= 0)
          => FetchesWithinDepth(crawl.fetched, crawl.edges, crawl.request.max_depth)
    /\ (ret.op = "crawl_website" /\ ret.max_depth >= 0)
          => FetchesWithinDepth(ret.fetched, ret.edges, ret.max_depth)

\* A crawl that the depth limit ended: it returned with nothing left to
\* visit, leaving unfetched a URL that a page max_depth links from the start
\* links to and that the domain filter did not exclude.
CrawlWithinDepthWitness ==
    /\ ret.op = "crawl_website"
    /\ ret.http = 200
    /\ ret.max_depth >= 1
    /\ ret.left = 0
    /\ ~ret.same_domain_only
    /\ Len(ret.fetched) >= 2
    /\ \E e \in ret.edges :
          /\ e[1] \notin WithinLinks(ret.edges, ret.max_depth - 1)
          /\ \A i \in 1..Len(ret.fetched) : ret.fetched[i] # e[2]

\* C21, as claimed: for every max_depth, every fetched page is at most
\* max_depth links from start_url and no URL is fetched more than once.
CrawlWithinAnyDepth ==
    /\ crawl.pc = "loop"
          => FetchesWithinDepth(crawl.fetched, crawl.edges, crawl.request.max_depth)
    /\ ret.op = "crawl_website"
          => FetchesWithinDepth(ret.fetched, ret.edges, ret.max_depth)

ChatAnswered ==
    /\ ret.op = "chat_analyze"
    /\ ret.client_id \in enhanced_db.clients
    /\ ret.db_ok

\* C22: whenever the Gemini call raises or no key is configured,
\* chat_analyze for an existing client (the conversation being saved)
\* answers 200 with the rule-based fallback and analysis_type 'Rule-based';
\* analysis_type is 'AI-powered' only when a key is configured and the
\* Gemini call returned.
ChatDegradesToFallback ==
    ChatAnswered
        => /\ ret.http = 200
           /\ (gemini_api_key = None \/ ~GeminiReturns(ret.gemini))
                 => /\ ret.analysis_type = "Rule-based"
                    /\ ret.response.kind = "fallback"
           /\ ret.analysis_type = "AI-powered"
                 => /\ gemini_api_key # None
                    /\ GeminiReturns(ret.gemini)
                    /\ ret.response.kind = "ai"

\* The key is configured and the Gemini call raised, for a client that has
\* a document.
ChatFallbackWitness ==
    /\ ChatAnswered
    /\ gemini_api_key # None
    /\ ret.gemini = "error"
    /\ ret.http = 200
    /\ ret.response.documents >= 1

\* The number of times the content of a ScrapedData record went into the
\* index: every add of a document leaves one fragment with chunk_index 0.
TimesIndexed(id) ==
    Cardinality({r \in store : /\ r.metadata.source_type = "scraped"
                               /\ r.metadata.source_id = ToString(id)
                               /\ r.metadata.chunk_index = 0})

\* C23: however many times the reprocessing runs on a job, also
\* concurrently, the fragments of each ScrapedData record are added to the
\* index at most once in total.
ReprocessAddsOnce == \A r \in scraped_data : TimesIndexed(r.id) <= 1

\* The background task of a job is scheduled or under way.
TaskPending(job_id) ==
    \E w \in Workers : /\ scraping_task[w].via = "process"
                        /\ scraping_task[w].job_id = job_id

\* C24: once the run of process_scraping_job (or scrape_website_task) for
\* a job has ended, the job is completed or failed, never pending or
\* running, whichever step failed.
JobTerminalAfterTask ==
    \A j \in scraping_jobs :
        ~TaskPending(j.id) => j.status \in {"completed", "failed"}

CompletedHasProcessed ==
    \A j \in scraping_jobs :
        j.status = "completed"
            => \E r \in scraped_data : r.job_id = j.id /\ r.is_processed

\* A step that marks a record is a step in which add_documents, called for
\* that record and the record's client, returned.
MarkedByReturnedAdd ==
    /\ \A r \in scraped_data' :
          (r.is_processed /\ r \notin scraped_data)
              => /\ ret'.op \in {"process_scraping_job", "reprocess_add"}
                 /\ ret'.record = r.id
                 /\ ret'.client_id = r.client_id
                 /\ ~ret'.add_raised
    /\ \A d \in client_data' :
          (d.is_processed /\ d \notin client_data)
              => /\ ret'.op = "upload_client_data"
                 /\ ret'.data_id = d.id
                 /\ ret'.client_id = d.client_id
                 /\ ret'.http = 200
                 /\ \E f \in store' \ store :
                       /\ f.metadata.source_id = ToString(d.id)
                       /\ f.metadata.client_id = d.client_id

FailedUploadLeavesNothing ==
    (ret.op = "upload_client_data" /\ ret.http = 500)
        => /\ ~\E d \in client_data : d.id = ret.data_id
           /\ ~\E f \in store : /\ f.metadata.source_id = ToString(ret.data_id)
                                /\ f.metadata.source_type = "document"

FirstChunks(chunks) == {c \in chunks : c.chunk_index = 0}

\* C28: get_client_documents(c) returns one entry per ingested document of
\* c: no entry holds fragments of two documents, and every fragment of c is
\* in exactly one entry.
OneEntryPerDocument ==
    (ret.op = "get_client_documents" /\ ret.http = 200 /\ ret.available)
        => /\ \A e \in ret.documents : Cardinality(FirstChunks(e.chunks)) <= 1
           /\ \A f \in ClientFragments(store, ret.client_id) :
                 Cardinality({e \in ret.documents :
                                \E c \in e.chunks : c.metadata = f.metadata}) = 1

=============================================================================
